---- MODULE Spec2Model ----
(***************************************************************************)
(* Model of go-mqttconn (mqtt.go): MQTTConn adapts a paho MQTT client to   *)
(* net.PacketConn.  The adapter owns one buffered channel (readChan) fed   *)
(* by the subscription callbacks and drained by ReadFrom, two deadlines,   *)
(* and a default topic / QoS used by Write.                                *)
(*                                                                         *)
(* Goroutines are modelled as processes: callers of ReadFrom (Readers),    *)
(* one caller of WriteTo/Write, one caller of Close, and one goroutine per *)
(* callback invocation of the client.  A Go panic ends the process: once   *)
(* panicked is set no action is enabled.                                   *)
(***************************************************************************)
EXTENDS Integers, Sequences, FiniteSets, TLC

\* ---------------------------------------------------------------- bounds
MaxTime == 2          \* the clock runs 1..MaxTime
MaxMsgs == 3          \* callback invocations in one run
MaxPublish == 2       \* Publish calls in one run
MaxPayloadLen == 2    \* longest payload
MaxBufLen == 1        \* longest read buffer
MaxClose == 2         \* Close calls in one run
MaxCalls == 3         \* calls the application makes in one run of Spec
MaxSeqMsgs == 1       \* callback invocations in one run of Spec
NReaders == 2         \* concurrent callers of ReadFrom

\* ------------------------------------------------------ program constants
ChanCap == 2          \* make(chan mqtt.Message, 2)

Topics == {"a", "b"}
\* the topic in the path of DialMQTT's uri; "" is also CreateMQTTConn
DialTopics == Topics \cup {""}
Readers == 1..NReaders
Times == 0..MaxTime         \* 0 is the zero time.Time
QoSInputs == {0, 257}
\* payloads <<>>, <<1>>, <<1,2>>, ...: every position holds a different byte
Payloads == { [i \in 1..n |-> i] : n \in 0..MaxPayloadLen }
\* make([]byte, n): a zeroed buffer
Buffers == { [i \in 1..n |-> 0] : n \in 0..MaxBufLen }

\* the payload of a message another client published
ForeignPayload == [i \in 1..MaxPayloadLen |-> i]

Min(a, b) == IF a <= b THEN a ELSE b

\* ------------------------------------------------------------ net.Addr
\* type TopicAddr string
TopicAddr(t) == [type |-> "TopicAddr", val |-> t]
\* an address of another family, as a caller may pass to WriteTo
UDPAddr(t) == [type |-> "UDPAddr", val |-> t]
NilAddr == [type |-> "nil", val |-> ""]

\* mutant: every address passes for a topic address
Network_any(addr) == "mqttTopic"

Network(addr) == IF addr.type = "TopicAddr" THEN "mqttTopic" ELSE "udp"
String(addr) == addr.val

Addrs == {TopicAddr(t) : t \in Topics \cup {""}} \cup {UDPAddr("a")}

\* --------------------------------------------------------------- errors
ErrNil == [kind |-> "nil", isTimeout |-> FALSE, text |-> ""]
\* &mqttError{isTimeout, errors.New(text)}
mqttError(isTimeout, text) == [kind |-> "mqttError", isTimeout |-> isTimeout, text |-> text]
\* errors.New(text)
errorsNew(text) == [kind |-> "errorString", isTimeout |-> FALSE, text |-> text]
\* an error the client reports on a token
ErrTransport == [kind |-> "transport", isTimeout |-> FALSE, text |-> "publish failed"]

\* func (err *mqttError) Timeout() bool; other errors have no Timeout method
Timeout(err) == err.kind = "mqttError" /\ err.isTimeout

\* byte(x) of a Go int
Byte(x) == x % 256

\* copy(p, payload): the buffer after the copy, and the count copied
CopyCount(p, payload) == Min(Len(p), Len(payload))
\* mutant: the payload is not copied into the caller's buffer
Copy_none(p, payload) == p

Copy(p, payload) ==
    [i \in 1..Len(p) |-> IF i <= CopyCount(p, payload) THEN payload[i] ELSE p[i]]

\* ---------------------------------------------------- chan mqtt.Message
\* ch <- m with room in the buffer: m goes to the back
ChanSend(ch, m) == Append(ch, m)

\* mutant: the newest buffered value is received
ChanRecv_last(ch) == ch[Len(ch)]

\* m := <-ch with a buffered value: the front one is received ...
ChanRecv(ch) == Head(ch)

\* mutant: the received value stays in the buffer
ChanRest_peek(ch) == ch

\* ... and leaves the buffer
ChanRest(ch) == Tail(ch)

\* mutant: a send never blocks, the buffer grows
ChanHasRoom_always(ch) == TRUE

\* ch <- m can proceed without blocking
ChanHasRoom(ch) == Len(ch) < ChanCap

VARIABLES
    \* fields of MQTTConn
    defaultTopicSet, defaultTopic, defaultQoS, readDeadline, writeDeadline,
    readChan,        \* buffered contents of the channel: ids into msgs
    chanClosed,      \* close(readChan) has run
    \* the embedded mqtt.Client
    subs,            \* topics with a registered handler
    tokens,          \* one token per Publish call, in call order
    connected,       \* FALSE after Disconnect
    \* environment
    now,             \* time.Now()
    msgs,            \* messages handed to the subscription callback, by id
    cbpc,            \* cbpc[id]: where the callback goroutine of msgs[id] is
    \* callers
    reader,          \* reader[r]: a goroutine calling ReadFrom
    writer,          \* the goroutine calling Write / WriteTo
    closer,          \* the goroutine calling Close
    panicked,        \* "none", or the runtime panic that ended the process
    \* history
    enqLog,          \* ids sent to readChan, in the order the sends completed
    readLog,         \* ids received from readChan, in receive order
    calls            \* calls of the adapter's methods made so far

vars == <<defaultTopicSet, defaultTopic, defaultQoS, readDeadline, writeDeadline,
          readChan, chanClosed, subs, tokens, connected, now, msgs, cbpc,
          reader, writer, closer, panicked, enqLog, readLog, calls>>

connVars == <<defaultTopicSet, defaultTopic, defaultQoS, readDeadline, writeDeadline>>

ReaderIdle == [pc |-> "idle", timeout |-> 0, p |-> <<>>, n |-> 0,
               addr |-> NilAddr, err |-> ErrNil, got |-> 0]
WriterIdle == [pc |-> "idle", b |-> <<>>, addr |-> NilAddr, tok |-> 0, until |-> 0,
               n |-> 0, err |-> ErrNil]

\* The adapter as its constructors return it.  CreateMQTTConn(client) on a
\* connected client: zero-valued fields and an empty channel of capacity 2,
\* no subscription.  DialMQTT(uri) is CreateMQTTConn and, when the path of
\* the uri names a topic, Subscribe(topic, 0) and SetDefaultTopic(topic).
Init ==
    /\ \E topic \in DialTopics :
          /\ defaultTopicSet = (topic # "")
          /\ defaultTopic = topic
          /\ subs = IF topic = "" THEN {} ELSE {topic}
    /\ defaultQoS = 0
    /\ readDeadline = 0
    /\ writeDeadline = 0
    /\ readChan = <<>>
    /\ chanClosed = FALSE
    /\ tokens = <<>>
    /\ connected = TRUE
    /\ now = 1
    /\ msgs = <<>>
    /\ cbpc = <<>>
    /\ reader = [r \in Readers |-> ReaderIdle]
    /\ writer = WriterIdle
    /\ closer = [pc |-> "idle", calls |-> 0]
    /\ panicked = "none"
    /\ enqLog = <<>>
    /\ readLog = <<>>
    /\ calls = 0

Alive == panicked = "none"

\* ------------------------------------------------------- configuration
\* func (conn *MQTTConn) Subscribe(topic string, qos int) error
\* The registration is handed to the client; the error is always nil.
Subscribe(topic, qos) ==
    /\ Alive
    /\ subs' = subs \cup {topic}
    /\ UNCHANGED <<connVars, readChan, chanClosed, tokens, connected, now, msgs,
                   cbpc, reader, writer, closer, panicked, enqLog, readLog>>

\* func (conn *MQTTConn) SetDefaultTopic(topic string)
SetDefaultTopic(topic) ==
    /\ Alive
    /\ defaultTopic' = topic
    /\ defaultTopicSet' = TRUE
    /\ UNCHANGED <<defaultQoS, readDeadline, writeDeadline, readChan, chanClosed,
                   subs, tokens, connected, now, msgs, cbpc, reader, writer,
                   closer, panicked, enqLog, readLog>>

\* func (conn *MQTTConn) SetDefaultQoS(qos int)
SetDefaultQoS(qos) ==
    /\ Alive
    /\ defaultQoS' = qos
    /\ UNCHANGED <<defaultTopicSet, defaultTopic, readDeadline, writeDeadline,
                   readChan, chanClosed, subs, tokens, connected, now, msgs, cbpc,
                   reader, writer, closer, panicked, enqLog, readLog>>

\* func (conn *MQTTConn) SetDeadline(t time.Time) error
SetDeadline(t) ==
    /\ Alive
    /\ readDeadline' = t
    /\ writeDeadline' = t
    /\ UNCHANGED <<defaultTopicSet, defaultTopic, defaultQoS, readChan, chanClosed,
                   subs, tokens, connected, now, msgs, cbpc, reader, writer,
                   closer, panicked, enqLog, readLog>>

\* mutant: SetReadDeadline moves the write deadline too
SetReadDeadline_both(t) ==
    /\ Alive
    /\ readDeadline' = t
    /\ writeDeadline' = t
    /\ UNCHANGED <<defaultTopicSet, defaultTopic, defaultQoS, readChan, chanClosed,
                   subs, tokens, connected, now, msgs, cbpc, reader, writer,
                   closer, panicked, enqLog, readLog>>

\* func (conn *MQTTConn) SetReadDeadline(t time.Time) error
SetReadDeadline(t) ==
    /\ Alive
    /\ readDeadline' = t
    /\ UNCHANGED <<defaultTopicSet, defaultTopic, defaultQoS, writeDeadline,
                   readChan, chanClosed, subs, tokens, connected, now, msgs, cbpc,
                   reader, writer, closer, panicked, enqLog, readLog>>

\* func (conn *MQTTConn) SetWriteDeadline(t time.Time) error
SetWriteDeadline(t) ==
    /\ Alive
    /\ writeDeadline' = t
    /\ UNCHANGED <<defaultTopicSet, defaultTopic, defaultQoS, readDeadline,
                   readChan, chanClosed, subs, tokens, connected, now, msgs, cbpc,
                   reader, writer, closer, panicked, enqLog, readLog>>

\* the wall clock advances
Tick ==
    /\ Alive
    /\ now < MaxTime
    /\ now' = now + 1
    /\ UNCHANGED <<connVars, readChan, chanClosed, subs, tokens, connected, msgs,
                   cbpc, reader, writer, closer, panicked, enqLog, readLog>>

\* ------------------------------------------------- subscription callback
\* mutant: the handler is invoked for messages of any topic, subscribed or not
CallbackFire_anyTopic(t, payload, tok) ==
    /\ Alive
    /\ connected
    /\ Len(msgs) < MaxMsgs
    /\ \/ tok = 0 /\ payload = ForeignPayload /\ UNCHANGED tokens
       \/ /\ tok \in 1..Len(tokens)
          /\ tokens[tok].state = "ok"
          /\ ~tokens[tok].delivered
          /\ tokens[tok].topic = t
          /\ tokens[tok].payload = payload
          /\ tokens' = [tokens EXCEPT ![tok].delivered = TRUE]
    /\ msgs' = Append(msgs, [topic |-> t, payload |-> payload, tok |-> tok,
                              seen |-> Len(enqLog)])
    /\ cbpc' = Append(cbpc, "send")
    /\ UNCHANGED <<connVars, readChan, chanClosed, subs, connected, now, reader,
                   writer, closer, panicked, enqLog, readLog>>

\* The client invokes the handler registered by Subscribe (mqtt.go:88) with a
\* message of a subscribed topic, in a goroutine of its own.  tok is the
\* Publish call of this adapter the message stems from, 0 for a message of
\* another publisher (whose payload is ForeignPayload); seen is the
\* number of handler invocations that had completed when this one began.
CallbackFire(t, payload, tok) ==
    /\ Alive
    /\ connected
    /\ t \in subs
    /\ Len(msgs) < MaxMsgs
    /\ \/ tok = 0 /\ payload = ForeignPayload /\ UNCHANGED tokens
       \/ /\ tok \in 1..Len(tokens)
          /\ tokens[tok].state = "ok"
          /\ ~tokens[tok].delivered
          /\ tokens[tok].topic = t
          /\ tokens[tok].payload = payload
          /\ tokens' = [tokens EXCEPT ![tok].delivered = TRUE]
    /\ msgs' = Append(msgs, [topic |-> t, payload |-> payload, tok |-> tok,
                              seen |-> Len(enqLog)])
    /\ cbpc' = Append(cbpc, "send")
    /\ UNCHANGED <<connVars, readChan, chanClosed, subs, connected, now, reader,
                   writer, closer, panicked, enqLog, readLog>>

\* conn.readChan <- msg  (mqtt.go:89): blocks while the buffer is full,
\* panics once the channel is closed.
CallbackSend(i) ==
    /\ Alive
    /\ i \in 1..Len(cbpc)
    /\ cbpc[i] = "send"
    /\ IF chanClosed
         THEN /\ panicked' = "send on closed channel"
              /\ cbpc' = [cbpc EXCEPT ![i] = "panic"]
              /\ UNCHANGED <<readChan, enqLog>>
         ELSE /\ ChanHasRoom(readChan)
              /\ readChan' = ChanSend(readChan, i)
              /\ enqLog' = Append(enqLog, i)
              /\ cbpc' = [cbpc EXCEPT ![i] = "done"]
              /\ UNCHANGED panicked
    /\ UNCHANGED <<connVars, chanClosed, subs, tokens, connected, now, msgs,
                   reader, writer, closer, readLog>>

\* ------------------------------------------------------------- reading
\* mutant: waitTime <= 0 is not checked, the select is entered with a timer
\* that has fired
ReadFrom_noPastCheck(r, p) ==
    /\ Alive
    /\ reader[r].pc = "idle"
    /\ reader' = [reader EXCEPT ![r] =
           [ReaderIdle EXCEPT !.pc = "select", !.p = p, !.timeout = readDeadline]]
    /\ UNCHANGED <<connVars, readChan, chanClosed, subs, tokens, connected, now,
                   msgs, cbpc, writer, closer, panicked, enqLog, readLog>>

\* ReadFrom up to the select statement (mqtt.go:148-158): the deadline is
\* looked at once, and time.After(waitTime) fires when it is reached.
ReadFrom(r, p) ==
    /\ Alive
    /\ reader[r].pc = "idle"
    /\ IF readDeadline = 0
         THEN reader' = [reader EXCEPT ![r] =
                  [ReaderIdle EXCEPT !.pc = "select", !.p = p, !.timeout = 0]]
         ELSE IF readDeadline - now <= 0
         THEN reader' = [reader EXCEPT ![r] =
                  [ReaderIdle EXCEPT !.p = p, !.err = mqttError(TRUE, "read timed out")]]
         ELSE reader' = [reader EXCEPT ![r] =
                  [ReaderIdle EXCEPT !.pc = "select", !.p = p, !.timeout = readDeadline]]
    /\ UNCHANGED <<connVars, readChan, chanClosed, subs, tokens, connected, now,
                   msgs, cbpc, writer, closer, panicked, enqLog, readLog>>

\* mutant: a message longer than the buffer is reported (as io.ErrShortBuffer
\* would be) and stays in the channel
ReadFromRecv_shortBuffer(r) ==
    /\ Alive
    /\ reader[r].pc = "select"
    /\ Len(readChan) > 0
    /\ LET msg == msgs[ChanRecv(readChan)]
           short == Len(reader[r].p) < Len(msg.payload)
       IN /\ reader' = [reader EXCEPT ![r] =
                 [@ EXCEPT !.pc = "idle",
                           !.p = IF short THEN @ ELSE Copy(reader[r].p, msg.payload),
                           !.n = IF short THEN 0 ELSE Len(msg.payload),
                           !.addr = TopicAddr(msg.topic),
                           !.err = IF short THEN errorsNew("short buffer") ELSE ErrNil,
                           !.got = IF short THEN 0 ELSE ChanRecv(readChan)]]
          /\ readChan' = IF short THEN readChan ELSE ChanRest(readChan)
          /\ readLog' = IF short THEN readLog ELSE Append(readLog, ChanRecv(readChan))
    /\ UNCHANGED <<connVars, chanClosed, subs, tokens, connected, now, msgs, cbpc,
                   writer, closer, panicked, enqLog>>

\* case msg := <-conn.readChan  (mqtt.go:161-163), a buffered message
ReadFromRecv(r) ==
    /\ Alive
    /\ reader[r].pc = "select"
    /\ Len(readChan) > 0
    /\ LET msg == msgs[ChanRecv(readChan)]
           copiedCount == CopyCount(reader[r].p, msg.payload)
       IN reader' = [reader EXCEPT ![r] =
              [@ EXCEPT !.pc = "idle",
                        !.p = Copy(reader[r].p, msg.payload),
                        !.n = copiedCount,
                        !.addr = TopicAddr(msg.topic),
                        !.err = ErrNil,
                        !.got = ChanRecv(readChan)]]
    /\ readChan' = ChanRest(readChan)
    /\ readLog' = Append(readLog, ChanRecv(readChan))
    /\ UNCHANGED <<connVars, chanClosed, subs, tokens, connected, now, msgs, cbpc,
                   writer, closer, panicked, enqLog>>

\* case msg := <-conn.readChan on a closed and drained channel: the receive
\* yields the nil message and msg.Payload() panics.
ReadFromRecvClosed(r) ==
    /\ Alive
    /\ reader[r].pc = "select"
    /\ Len(readChan) = 0
    /\ chanClosed
    /\ reader' = [reader EXCEPT ![r].pc = "panic"]
    /\ panicked' = "nil pointer dereference"
    /\ UNCHANGED <<connVars, readChan, chanClosed, subs, tokens, connected, now,
                   msgs, cbpc, writer, closer, enqLog, readLog>>

\* mutant: the timer fires also when no deadline was set
ReadFromTimeout_zero(r) ==
    /\ Alive
    /\ reader[r].pc = "select"
    /\ now >= reader[r].timeout
    /\ reader' = [reader EXCEPT ![r] =
           [@ EXCEPT !.pc = "idle", !.n = 0, !.addr = NilAddr,
                     !.err = mqttError(TRUE, "read timed out")]]
    /\ UNCHANGED <<connVars, readChan, chanClosed, subs, tokens, connected, now,
                   msgs, cbpc, writer, closer, panicked, enqLog, readLog>>

\* mutant: the select looks at the deadline field as it is now, not at the
\* timer made when ReadFrom was entered
ReadFromTimeout_live(r) ==
    /\ Alive
    /\ reader[r].pc = "select"
    /\ readDeadline # 0
    /\ now >= readDeadline
    /\ reader' = [reader EXCEPT ![r] =
           [@ EXCEPT !.pc = "idle", !.n = 0, !.addr = NilAddr,
                     !.err = mqttError(TRUE, "read timed out")]]
    /\ UNCHANGED <<connVars, readChan, chanClosed, subs, tokens, connected, now,
                   msgs, cbpc, writer, closer, panicked, enqLog, readLog>>

\* mutant: a timed-out ReadFrom gives the connection up and closes the channel
ReadFromTimeout_closes(r) ==
    /\ Alive
    /\ reader[r].pc = "select"
    /\ reader[r].timeout # 0
    /\ now >= reader[r].timeout
    /\ reader' = [reader EXCEPT ![r] =
           [@ EXCEPT !.pc = "idle", !.n = 0, !.addr = NilAddr,
                     !.err = mqttError(TRUE, "read timed out")]]
    /\ chanClosed' = TRUE
    /\ UNCHANGED <<connVars, readChan, subs, tokens, connected, now,
                   msgs, cbpc, writer, closer, panicked, enqLog, readLog>>

\* case <-timeout  (mqtt.go:164-165): the timer of time.After has fired
ReadFromTimeout(r) ==
    /\ Alive
    /\ reader[r].pc = "select"
    /\ reader[r].timeout # 0
    /\ now >= reader[r].timeout
    /\ reader' = [reader EXCEPT ![r] =
           [@ EXCEPT !.pc = "idle", !.n = 0, !.addr = NilAddr,
                     !.err = mqttError(TRUE, "read timed out")]]
    /\ UNCHANGED <<connVars, readChan, chanClosed, subs, tokens, connected, now,
                   msgs, cbpc, writer, closer, panicked, enqLog, readLog>>

\* ------------------------------------------------------------- writing
\* conn.Client.Publish(topic, qos, retained, payload): the token of the new
\* publish.  A client that is no longer connected completes it with an error.
Publish(topic, qos, retained, payload) ==
    [topic |-> topic, qos |-> qos, retained |-> retained, payload |-> payload,
     state |-> IF connected THEN "pending" ELSE "err", delivered |-> FALSE]

\* mutant: the error of a failed publish is lost
TokenError_none(token) == ErrNil

\* token.Error(): the error the token was completed with, nil until then
TokenError(token) == IF token.state = "err" THEN ErrTransport ELSE ErrNil

\* WriteTo up to the wait on the token (mqtt.go:120-133)
WriteTo(b, addr) ==
    /\ Alive
    /\ writer.pc = "idle"
    /\ IF Network(addr) # Network(TopicAddr(""))
         THEN /\ writer' = [WriterIdle EXCEPT !.b = b, !.addr = addr,
                     !.err = errorsNew("unexpected net.Addr.Network() value")]
              /\ UNCHANGED tokens
         ELSE /\ Len(tokens) < MaxPublish
              /\ tokens' = Append(tokens,
                     Publish(String(addr), Byte(defaultQoS), FALSE, b))
              /\ IF writeDeadline = 0
                   THEN writer' = [WriterIdle EXCEPT !.pc = "wait", !.b = b, !.addr = addr,
                                      !.tok = Len(tokens) + 1, !.until = 0]
                   ELSE IF writeDeadline - now <= 0
                   THEN writer' = [WriterIdle EXCEPT !.b = b, !.addr = addr,
                                      !.tok = Len(tokens) + 1,
                                      !.err = mqttError(TRUE, "publish timed out")]
                   ELSE writer' = [WriterIdle EXCEPT !.pc = "wait", !.b = b, !.addr = addr,
                                      !.tok = Len(tokens) + 1, !.until = writeDeadline]
    /\ UNCHANGED <<connVars, readChan, chanClosed, subs, connected, now, msgs,
                   cbpc, reader, closer, panicked, enqLog, readLog>>

\* mutant: Write refuses to publish while no default topic has been set
Write_checked(b) ==
    IF defaultTopicSet
    THEN WriteTo(b, TopicAddr(defaultTopic))
    ELSE /\ Alive
         /\ writer.pc = "idle"
         /\ writer' = [WriterIdle EXCEPT !.b = b,
                          !.err = errorsNew("no default topic")]
         /\ UNCHANGED <<connVars, readChan, chanClosed, subs, tokens, connected,
                        now, msgs, cbpc, reader, closer, panicked, enqLog, readLog>>

\* func (conn *MQTTConn) Write(p []byte) (n int, err error)
Write(b) == WriteTo(b, TopicAddr(defaultTopic))

\* token.Wait() / token.WaitTimeout(waitTime) return, then mqtt.go:134-138.
\* Wait returns when the token is complete; WaitTimeout also when waitTime
\* has passed, and its result is not looked at.
WriteToReturn ==
    /\ Alive
    /\ writer.pc = "wait"
    /\ \/ tokens[writer.tok].state # "pending"
       \/ writer.until # 0 /\ now >= writer.until
    /\ LET err == TokenError(tokens[writer.tok])
       IN writer' = [writer EXCEPT !.pc = "idle",
                                   !.n = IF err # ErrNil THEN 0 ELSE Len(writer.b),
                                   !.err = err]
    /\ UNCHANGED <<connVars, readChan, chanClosed, subs, tokens, connected, now,
                   msgs, cbpc, reader, closer, panicked, enqLog, readLog>>

\* the client completes a publish: acknowledged, or failed
TokenComplete(k, outcome) ==
    /\ Alive
    /\ k \in 1..Len(tokens)
    /\ tokens[k].state = "pending"
    /\ outcome = "ok" => connected
    /\ tokens' = [tokens EXCEPT ![k].state = outcome]
    /\ UNCHANGED <<connVars, readChan, chanClosed, subs, connected, now, msgs,
                   cbpc, reader, writer, closer, panicked, enqLog, readLog>>

\* --------------------------------------------------------------- close
\* close(conn.readChan)  (mqtt.go:200): panics on a closed channel
Close ==
    /\ Alive
    /\ closer.pc = "idle"
    /\ closer.calls < MaxClose
    /\ IF chanClosed
         THEN /\ panicked' = "close of closed channel"
              /\ closer' = [closer EXCEPT !.pc = "panic"]
              /\ UNCHANGED chanClosed
         ELSE /\ chanClosed' = TRUE
              /\ closer' = [closer EXCEPT !.pc = "disconnect"]
              /\ UNCHANGED panicked
    /\ UNCHANGED <<connVars, readChan, subs, tokens, connected, now, msgs, cbpc,
                   reader, writer, enqLog, readLog>>

\* conn.Client.Disconnect(100); return nil  (mqtt.go:201-202)
CloseDisconnect ==
    /\ Alive
    /\ closer.pc = "disconnect"
    /\ connected' = FALSE
    /\ closer' = [pc |-> "idle", calls |-> closer.calls + 1]
    /\ UNCHANGED <<connVars, readChan, chanClosed, subs, tokens, now, msgs, cbpc,
                   reader, writer, panicked, enqLog, readLog>>

\* ---------------------------------------------------------------- spec
\* A call of one of the adapter's methods by the application
Call(A) == calls < MaxCalls /\ A /\ calls' = calls + 1
\* A step of a call in progress, of the client or of the clock
Step(A) == A /\ UNCHANGED calls

\* no call of the application's goroutine is in progress
CallerFree == reader[1].pc = "idle" /\ writer.pc = "idle" /\ closer.pc = "idle"

\* One application goroutine makes up to MaxCalls calls one after another;
\* the client completes publishes and invokes the handler concurrently.
Next ==
    \/ \E t \in Topics, q \in QoSInputs : CallerFree /\ Call(Subscribe(t, q))
    \/ \E t \in Topics : CallerFree /\ Call(SetDefaultTopic(t))
    \/ \E q \in QoSInputs : CallerFree /\ Call(SetDefaultQoS(q))
    \/ \E t \in Times : CallerFree /\ Call(SetDeadline(t))
    \/ \E t \in Times : CallerFree /\ Call(SetReadDeadline(t))
    \/ \E t \in Times : CallerFree /\ Call(SetWriteDeadline(t))
    \/ \E p \in Buffers : CallerFree /\ Call(ReadFrom(1, p))
    \/ \E b \in Payloads, a \in Addrs : CallerFree /\ Call(WriteTo(b, a))
    \/ \E b \in Payloads : CallerFree /\ Call(Write(b))
    \/ CallerFree /\ Call(Close)
    \/ Step(ReadFromRecv(1))
    \/ Step(ReadFromRecvClosed(1))
    \/ Step(ReadFromTimeout(1))
    \/ Step(WriteToReturn)
    \/ Step(CloseDisconnect)
    \/ Step(Tick)
    \/ \E t \in Topics, p \in Payloads, k \in 0..MaxPublish :
          Len(msgs) < MaxSeqMsgs /\ Step(CallbackFire(t, p, k))
    \/ \E i \in 1..MaxMsgs : Step(CallbackSend(i))
    \/ \E k \in 1..MaxPublish, o \in {"ok", "err"} : Step(TokenComplete(k, o))

Spec == Init /\ [][Next]_vars

\* Several goroutines use the adapter at once: Readers call ReadFrom, one
\* calls Subscribe and Close, while the client invokes the handler.
NextQ ==
    \/ \E t \in Topics, q \in QoSInputs : Step(Subscribe(t, q))
    \/ \E r \in Readers, p \in Buffers : Step(ReadFrom(r, p))
    \/ \E r \in Readers : Step(ReadFromRecv(r))
    \/ \E r \in Readers : Step(ReadFromRecvClosed(r))
    \/ Step(Close)
    \/ Step(CloseDisconnect)
    \/ \E t \in Topics, p \in Payloads, k \in 0..MaxPublish : Step(CallbackFire(t, p, k))
    \/ \E i \in 1..MaxMsgs : Step(CallbackSend(i))

SpecQ == Init /\ [][NextQ]_vars

\* One goroutine calls ReadFrom time after time on an open adapter while
\* another sets the deadlines and the client invokes the handler.  A
\* goroutine whose receive can proceed is eventually run by the scheduler.
NextD ==
    \/ \E p \in Buffers : Step(ReadFrom(1, p))
    \/ Step(ReadFromRecv(1))
    \/ Step(ReadFromTimeout(1))
    \/ \E t \in Times : Step(SetReadDeadline(t))
    \/ \E t \in Times : Step(SetDeadline(t))
    \/ Step(Tick)
    \/ \E t \in Topics, p \in Payloads, k \in 0..MaxPublish : Step(CallbackFire(t, p, k))
    \/ \E i \in 1..MaxMsgs : Step(CallbackSend(i))

SpecD == Init /\ [][NextD]_vars /\ WF_vars(Step(ReadFromRecv(1)))

\* ---------------------------------------------------------- properties
\* a position of id in the sequence log, 0 when it is not in it
Pos(log, id) ==
    IF \E k \in 1..Len(log) : log[k] = id
    THEN CHOOSE k \in 1..Len(log) : log[k] = id
    ELSE 0
Count(log, id) == Cardinality({k \in 1..Len(log) : log[k] = id})

\* the last WriteTo call published b to addr and returned (len(b), nil)
WriteSucceeded ==
    /\ writer.pc = "idle"
    /\ writer.tok # 0
    /\ writer.err = ErrNil
    /\ writer.n = Len(writer.b)

\* reader r has returned the message of the last WriteTo call
ReadBack(r) ==
    /\ reader[r].pc = "idle"
    /\ reader[r].got # 0
    /\ msgs[reader[r].got].tok = writer.tok

\* C1: round trip.  When WriteTo(P, T) has succeeded on an adapter subscribed
\* to T and a ReadFrom with a buffer of at least len(P) bytes returns that
\* message, it returns n = len(P), no error, P in the first n bytes of the
\* buffer and an address whose String() is T.
C1_RoundTrip ==
    \A r \in Readers :
        (/\ WriteSucceeded
         /\ String(writer.addr) \in subs
         /\ ReadBack(r)
         /\ Len(reader[r].p) >= Len(writer.b))
        => /\ reader[r].err = ErrNil
           /\ reader[r].n = Len(writer.b)
           /\ SubSeq(reader[r].p, 1, reader[r].n) = writer.b
           /\ Network(reader[r].addr) = "mqttTopic"
           /\ String(reader[r].addr) = String(writer.addr)

\* C1 witness: a non-empty payload was written, delivered and read back
\* into a buffer that holds it, with nothing else pending.
C1_Witness ==
    /\ WriteSucceeded
    /\ ReadBack(1)
    /\ Len(writer.b) > 0
    /\ Len(reader[1].p) >= Len(writer.b)
    /\ readChan = <<>>

\* the write deadline is set and has passed
WriteDeadlinePassed == writeDeadline # 0 /\ writeDeadline - now <= 0

\* C2 (as claimed): a WriteTo to a topic address whose write deadline has
\* passed returns a timeout error and issues no Publish to the client.
C2_PastDeadlineNoPublish ==
    [][\A b \in Payloads, a \in Addrs :
          (WriteTo(b, a) /\ Network(a) = "mqttTopic" /\ WriteDeadlinePassed)
          => (Timeout(writer'.err) /\ writer'.pc = "idle" /\ tokens' = tokens)]_vars

\* C3 (as claimed): a WriteTo whose wait ends because the deadline passed
\* while the publish is still pending returns a timeout error, not success.
C3_WaitTimeoutIsError ==
    [][(WriteToReturn /\ tokens[writer.tok].state = "pending")
          => (Timeout(writer'.err) /\ writer'.n = 0)]_vars

\* the read deadline is set and has passed
ReadDeadlinePassed == readDeadline # 0 /\ readDeadline - now <= 0

\* C4: a ReadFrom entered after the read deadline has passed returns at once
\* (it never reaches the select) with a timeout error and 0 bytes, and the
\* channel holds what it held before, also when it is not empty.
C4_PastReadDeadline ==
    [][\A r \in Readers, p \in Buffers :
          (ReadFrom(r, p) /\ ReadDeadlinePassed)
          => /\ reader'[r].pc = "idle"
             /\ Timeout(reader'[r].err)
             /\ reader'[r].n = 0
             /\ reader'[r].got = 0
             /\ readChan' = readChan
             /\ readLog' = readLog
             /\ chanClosed' = chanClosed]_vars

\* C4 witness: a ReadFrom has returned the timeout without starting a timer
\* while the deadline is passed and a message is buffered.
C4_Witness ==
    /\ ReadDeadlinePassed
    /\ reader[1].pc = "idle"
    /\ Timeout(reader[1].err)
    /\ reader[1].timeout = 0
    /\ Len(readChan) > 0

\* C5: when the timer wins the select, ReadFrom returns a timeout error and
\* 0 bytes and has received nothing: the channel's buffer is unchanged and
\* not closed, no handler invocation is disturbed, so the buffered messages
\* stay in place for the next ReadFrom.
C5_TimerWins ==
    [][\A r \in Readers :
          ReadFromTimeout(r)
          => /\ reader'[r].pc = "idle"
             /\ Timeout(reader'[r].err)
             /\ reader'[r].n = 0
             /\ reader'[r].got = 0
             /\ readChan' = readChan
             /\ chanClosed' = chanClosed
             /\ enqLog' = enqLog
             /\ readLog' = readLog
             /\ msgs' = msgs
             /\ cbpc' = cbpc]_vars

\* C5 witness: the timer of a ReadFrom won while a message was buffered.
C5_Witness ==
    /\ reader[1].pc = "idle"
    /\ Timeout(reader[1].err)
    /\ reader[1].timeout # 0
    /\ Len(readChan) > 0
    /\ ~chanClosed

\* C6 (as claimed): no Close call panics by closing the closed channel.
C6_DoubleCloseSafe == panicked # "close of closed channel"

\* C7 (as claimed): no handler invocation sends on the closed channel,
\* whether it begins after close(readChan) or is blocked on the full
\* channel when close(readChan) runs.
C7_NoSendOnClosed ==
    /\ panicked # "send on closed channel"
    /\ \A i \in 1..Len(cbpc) : cbpc[i] # "panic"

Ids == 1..Len(msgs)

\* every message handed to the handler is in exactly one place: still in
\* the hands of its handler invocation, in the channel, or received
Conservation ==
    \A i \in Ids :
        /\ Count(readChan, i) + Count(readLog, i) = Count(enqLog, i)
        /\ Count(enqLog, i) = IF cbpc[i] = "done" THEN 1 ELSE 0

\* C8: the channel never holds more than 2 messages, no message handed to
\* the handler is dropped or overwritten, and a handler invocation that
\* finds the open channel full stays blocked as long as it is full.
C8_Backpressure ==
    /\ [](Len(readChan) <= ChanCap /\ Conservation)
    /\ [][\A i \in Ids :
            (cbpc[i] = "send" /\ Len(readChan) = ChanCap /\ ~chanClosed)
            => (cbpc'[i] = "send" /\ ~(\E k \in 1..Len(readChan') : readChan'[k] = i))]_vars

\* C8 witness: a handler invocation is blocked on the full open channel.
C8_Witness ==
    /\ Len(readChan) = ChanCap
    /\ ~chanClosed
    /\ \E i \in Ids : cbpc[i] = "send"

\* C9: messages are received in the order the handler invocations sent them;
\* and of two messages of one topic, the second handed to the handler after
\* the first invocation had completed, the first is received first, whatever
\* messages of other topics come in between.
C9_FIFO ==
    /\ enqLog = readLog \o readChan
    /\ \A i, j \in Ids :
          (/\ msgs[i].topic = msgs[j].topic
           /\ Pos(enqLog, i) \in 1..msgs[j].seen
           /\ Pos(readLog, j) # 0)
          => (Pos(readLog, i) # 0 /\ Pos(readLog, i) < Pos(readLog, j))

\* C9 witness: three messages were received, the first and the third of one
\* topic, fired one after the other, the second of another topic.
C9_Witness ==
    /\ Len(readLog) = 3
    /\ msgs[readLog[1]].topic = msgs[readLog[3]].topic
    /\ msgs[readLog[2]].topic # msgs[readLog[1]].topic
    /\ msgs[readLog[3]].seen >= 1

\* C10: with several goroutines in ReadFrom, every message is received at
\* most once, no two calls return the same message, a received message has
\* left the channel, and after n receives the first n messages sent have
\* all been received.
C10_ExactlyOnce ==
    /\ \A i \in Ids :
          /\ Count(readLog, i) <= 1
          /\ Count(readLog, i) = 1 => Count(readChan, i) = 0
    /\ \A r1, r2 \in Readers :
          (r1 # r2 /\ reader[r1].got # 0) => reader[r1].got # reader[r2].got
    /\ \A r \in Readers : reader[r].got # 0 => Count(readLog, reader[r].got) = 1
    /\ Len(readLog) <= Len(enqLog)
    /\ {enqLog[k] : k \in 1..Len(readLog)} = {readLog[k] : k \in 1..Len(readLog)}

\* C10 witness: two goroutines were in the select at once and each has
\* returned a message; all three messages have been received.
C10_Witness ==
    /\ reader[1].pc = "idle" /\ reader[1].got # 0
    /\ reader[2].pc = "idle" /\ reader[2].got # 0
    /\ Len(readLog) = 3

\* C11: Write(b) is WriteTo(b, TopicAddr(defaultTopic)) in every state, also
\* when no default topic was set: the address check passes, b is published
\* to the default topic ("" when unset) at the default QoS, not retained,
\* and the call goes on as that WriteTo call does.
C11_WriteIsWriteTo ==
    [][\A b \in Payloads :
          Write(b)
          => /\ WriteTo(b, TopicAddr(defaultTopic))
             /\ tokens' = Append(tokens,
                    Publish(defaultTopic, Byte(defaultQoS), FALSE, b))
             /\ writer'.b = b
             /\ writer'.addr = TopicAddr(defaultTopic)
             /\ writer'.tok = Len(tokens')
             /\ writer'.err.kind # "errorString"]_vars

\* C11 witness: a Write on an adapter without default topic has published to
\* the empty topic and returned success.
C11_Witness ==
    /\ ~defaultTopicSet
    /\ WriteSucceeded
    /\ writer.addr = TopicAddr("")
    /\ tokens[writer.tok].topic = ""
    /\ Len(writer.b) > 0

\* C12: silent truncation.  A ReadFrom that receives a message with payload
\* P into the buffer p returns n = min(len(p), len(P)), the first n bytes of
\* P in p, the rest of p as it was, and no error; the message has left the
\* channel whole, so what did not fit is not returned by a later ReadFrom.
C12_Truncation ==
    [][\A r \in Readers :
          ReadFromRecv(r)
          => LET id == Head(readChan)
                 P == msgs[id].payload
                 B == reader[r].p
             IN /\ reader'[r].pc = "idle"
                /\ reader'[r].err = ErrNil
                /\ reader'[r].got = id
                /\ reader'[r].n = Min(Len(B), Len(P))
                /\ Len(reader'[r].p) = Len(B)
                /\ \A i \in 1..Len(B) :
                      reader'[r].p[i] = IF i <= Len(P) THEN P[i] ELSE B[i]
                /\ readChan' = Tail(readChan)
                /\ Count(readChan', id) = 0
                /\ Count(readLog', id) = 1]_vars

\* C12 witness: a ReadFrom has returned 1 byte of a 2-byte payload without
\* error, and the channel is empty.
C12_Witness ==
    /\ reader[1].pc = "idle"
    /\ reader[1].got # 0
    /\ Len(msgs[reader[1].got].payload) > Len(reader[1].p)
    /\ reader[1].n = 1
    /\ reader[1].p = <<1>>
    /\ reader[1].err = ErrNil
    /\ readChan = <<>>

\* C13: a WriteTo to an address that is not a topic address returns at once
\* 0 and the error "unexpected net.Addr.Network() value", which is not a
\* timeout, and calls no Publish, whether the write deadline is unset, ahead
\* or passed.
C13_AddressCheck ==
    [][\A b \in Payloads, a \in Addrs :
          (WriteTo(b, a) /\ a.type # "TopicAddr")
          => /\ writer'.pc = "idle"
             /\ writer'.n = 0
             /\ writer'.err = errorsNew("unexpected net.Addr.Network() value")
             /\ ~Timeout(writer'.err)
             /\ writer'.tok = 0
             /\ tokens' = tokens]_vars

\* C13 witness: a WriteTo to a UDP address has returned the address error
\* with the write deadline passed and nothing published.
C13_Witness ==
    /\ writer.pc = "idle"
    /\ writer.addr = UDPAddr("a")
    /\ writer.err = errorsNew("unexpected net.Addr.Network() value")
    /\ WriteDeadlinePassed
    /\ tokens = <<>>

\* C14: every message handed to the handler, buffered or returned by a
\* ReadFrom is of a topic passed to Subscribe (by DialMQTT or the caller);
\* the adapter CreateMQTTConn returns has no subscription and no message;
\* and a publish of WriteTo to a topic without subscription, completed or
\* not, is never handed to the handler, so no ReadFrom returns it.
C14_OnlySubscribed ==
    /\ \A i \in Ids : msgs[i].topic \in subs
    /\ \A r \in Readers :
          reader[r].got # 0 => String(reader[r].addr) \in subs
    /\ \A k \in 1..Len(tokens) :
          tokens[k].topic \notin subs
          => /\ ~tokens[k].delivered
             /\ \A i \in Ids : msgs[i].tok # k
             /\ \A r \in Readers :
                   reader[r].got # 0 => msgs[reader[r].got].tok # k
    /\ (calls = 0 /\ ~defaultTopicSet) => (subs = {} /\ msgs = <<>> /\ readChan = <<>>)

\* C14 witness: a WriteTo to a topic without subscription has succeeded on
\* an adapter subscribed to another topic, and a ReadFrom is waiting.
C14_Witness ==
    /\ WriteSucceeded
    /\ tokens[writer.tok].state = "ok"
    /\ subs # {}
    /\ String(writer.addr) \notin subs
    /\ reader[1].pc = "select"
    /\ readChan = <<>>

\* what none of the three deadline setters touches: the channel and what
\* went through it, the default topic and the default QoS
DeadlineFrame ==
    /\ readChan' = readChan
    /\ chanClosed' = chanClosed
    /\ enqLog' = enqLog
    /\ readLog' = readLog
    /\ defaultTopicSet' = defaultTopicSet
    /\ defaultTopic' = defaultTopic
    /\ defaultQoS' = defaultQoS

\* C16: SetDeadline(t) sets the read and the write deadline to t;
\* SetReadDeadline(t) sets the read deadline and leaves the write deadline;
\* SetWriteDeadline(t) sets the write deadline and leaves the read deadline;
\* none of them changes the channel, the default topic or the default QoS.
C16_DeadlineSetters ==
    [][\A t \in Times :
          /\ SetDeadline(t)
             => (readDeadline' = t /\ writeDeadline' = t /\ DeadlineFrame)
          /\ SetReadDeadline(t)
             => (readDeadline' = t /\ writeDeadline' = writeDeadline /\ DeadlineFrame)
          /\ SetWriteDeadline(t)
             => (writeDeadline' = t /\ readDeadline' = readDeadline /\ DeadlineFrame)]_vars

\* C16 witness: the two deadlines were set apart, in two calls, on an
\* adapter with a default topic and a buffered message.
C16_Witness ==
    /\ readDeadline # 0
    /\ writeDeadline # 0
    /\ readDeadline # writeDeadline
    /\ defaultTopicSet
    /\ Len(readChan) = 1
    /\ calls = 2

\* C17 (as claimed): the publish of every WriteTo or Write carries the value
\* last passed to SetDefaultQoS (0 when it was never called) as its QoS, and
\* is not retained.
C17_PublishQoS ==
    [][\A b \in Payloads, a \in Addrs :
          (WriteTo(b, a) /\ a.type = "TopicAddr")
          => /\ Len(tokens') = Len(tokens) + 1
             /\ tokens'[Len(tokens')].qos = defaultQoS
             /\ tokens'[Len(tokens')].retained = FALSE]_vars

\* C18: with the write deadline unset, WriteTo waits for the token and
\* returns only once the publish is complete; it returns (len(b), nil) when
\* the publish completed without error, and (0, err) with err the error of
\* the token as it is when the publish failed; in that case the channel, the
\* subscriptions and the adapter's fields are as they were.
C18_NoWriteDeadline ==
    [][/\ \A b \in Payloads, a \in Addrs :
             (WriteTo(b, a) /\ a.type = "TopicAddr" /\ writeDeadline = 0)
             => (writer'.pc = "wait" /\ writer'.until = 0)
       /\ (WriteToReturn /\ writer.until = 0)
          => LET token == tokens[writer.tok]
             IN /\ token.state # "pending"
                /\ writer'.pc = "idle"
                /\ token.state = "ok"
                   => (writer'.n = Len(writer.b) /\ writer'.err = ErrNil)
                /\ token.state = "err"
                   => /\ writer'.n = 0
                      /\ writer'.err = ErrTransport
                      /\ readChan' = readChan
                      /\ chanClosed' = chanClosed
                      /\ subs' = subs
                      /\ connVars' = connVars
                      /\ panicked' = panicked]_vars

\* C18 witness: a WriteTo without write deadline on a connected client has
\* returned 0 and the transport error, with a message buffered.
C18_Witness ==
    /\ writer.pc = "idle"
    /\ writer.tok # 0
    /\ writer.until = 0
    /\ Len(writer.b) > 0
    /\ writer.n = 0
    /\ writer.err = ErrTransport
    /\ connected
    /\ Len(readChan) = 1

\* C19 (as claimed): no ReadFrom ends in a panic on the nil message a closed
\* and drained channel yields.
C19_ReadAfterCloseSafe ==
    /\ panicked # "nil pointer dereference"
    /\ \A r \in Readers : reader[r].pc # "panic"

\* the ReadFrom call of goroutine 1 waits in the select without a timer
BlockedNoDeadline == reader[1].pc = "select" /\ reader[1].timeout = 0

\* C15: a ReadFrom entered with the read deadline unset reaches the select
\* without a timer; from there it leaves only by receiving the message at
\* the front of the channel, so it waits while the channel is empty and
\* never returns a timeout error, whatever the deadline is set to meanwhile;
\* and when a message is buffered it eventually returns that message.
C15_ZeroDeadlineBlocks ==
    /\ [][/\ \A p \in Buffers :
                (ReadFrom(1, p) /\ readDeadline = 0)
                => (reader'[1].pc = "select" /\ reader'[1].timeout = 0
                    /\ readChan' = readChan)
          /\ (BlockedNoDeadline /\ reader'[1] # reader[1])
             => /\ Len(readChan) > 0
                /\ ReadFromRecv(1)
                /\ reader'[1].pc = "idle"
                /\ reader'[1].got = Head(readChan)
                /\ reader'[1].err = ErrNil]_vars
    /\ \A id \in 1..MaxMsgs :
          (BlockedNoDeadline /\ Len(readChan) > 0 /\ Head(readChan) = id)
          ~> (reader[1].pc = "idle" /\ reader[1].got = id /\ reader[1].err = ErrNil)

\* C15 witness: a ReadFrom without timer is waiting on the empty channel
\* while time has moved on and the deadline has been set to a time that has
\* passed.
C15_Witness ==
    /\ BlockedNoDeadline
    /\ readChan = <<>>
    /\ ReadDeadlinePassed
    /\ now = MaxTime

\* the timer of the ReadFrom call of goroutine 1 has fired
TimerFired ==
    reader[1].pc = "select" /\ reader[1].timeout # 0 /\ now >= reader[1].timeout

\* C20: ReadFrom looks at the read deadline when it is entered and not
\* again.  SetReadDeadline and SetDeadline leave a ReadFrom that waits in
\* the select as it is; that ReadFrom can time out exactly when the deadline
\* it was entered with is reached, whatever the deadline is by then; a
\* ReadFrom entered later goes by the new deadline.
C20_DeadlineSampledOnce ==
    /\ [](TimerFired => ENABLED ReadFromTimeout(1))
    /\ [][/\ \A t \in Times :
                (SetReadDeadline(t) \/ SetDeadline(t))
                => (reader' = reader /\ readDeadline' = t)
          /\ ReadFromTimeout(1) => TimerFired
          /\ (reader[1].pc = "select" /\ reader'[1].pc = "select")
             => reader'[1].timeout = reader[1].timeout
          /\ \A p \in Buffers :
                ReadFrom(1, p)
                => IF readDeadline # 0 /\ readDeadline > now
                     THEN reader'[1].pc = "select" /\ reader'[1].timeout = readDeadline
                     ELSE reader'[1].timeout = 0]_vars

\* C20 witness: the deadline a waiting ReadFrom was entered with is reached
\* after the read deadline was cleared.
C20_Witness ==
    /\ TimerFired
    /\ readDeadline = 0
    /\ readChan = <<>>

====
